---------------------------- MODULE Spec2Model ----------------------------
(* A model of lvtemple_whatsapp.py: the text sanitizer, the Airtable        *)
(* recipient fetch, the list-scan event extraction, the message formatter   *)
(* and the orchestrator main() with its send loop.                          *)
(*                                                                          *)
(* Strings are sequences of Unicode code points (naturals), so that         *)
(* character classes, slicing, stripping and lexicographic comparison are   *)
(* computed as Python computes them.  Dates are day numbers of the year     *)
(* 2026 (1 = Jan 01 2026); strftime renders them as text.                   *)
EXTENDS Integers, Sequences, FiniteSets, TLC

VARIABLES
    pc,            \* position of main(), or "call"/"return" of a function under test
    today,         \* datetime.now(TZ).date(), as a day number
    ticks,         \* how many times the clock has moved to the next day
    recipients,    \* main(): recipients
    events,        \* main(): events
    win_start,     \* get_7_day_events(): its local start_date (0: not called)
    fmt_start,     \* format_events_message(): its local start_date (0: not called)
    format_calls,  \* number of calls of format_events_message by main()
    events_text,   \* main(): events_text
    sent,          \* main(): sent
    failed,        \* main(): failed
    attempts,      \* every call of send_whatsapp_template so far: [to, raised]
    sleeps,        \* number of time.sleep(DELAY_BETWEEN_SENDS_SEC) calls so far
    raised,        \* the function whose exception left main(), or "none"
    arg,           \* the argument of the function under test
    ret            \* its return value

vars == <<pc, today, ticks, recipients, events, win_start, fmt_start,
          format_calls, events_text, sent, failed, attempts, sleeps, raised,
          arg, ret>>

-----------------------------------------------------------------------------
(* Bounds of the model.                                                     *)

\* longest input string given to the sanitizer
MaxLen == 3
\* the clock's date when the run starts (55 = Feb 24 2026)
FirstDay == 55
\* how many midnights may pass during one run
MaxTicks == 1

-----------------------------------------------------------------------------
(* Sequence helpers.                                                        *)

Range(s) == {s[i] : i \in 1..Len(s)}

Min(a, b) == IF a < b THEN a ELSE b

\* Python s[:n]
Take(s, n) == SubSeq(s, 1, Min(n, Len(s)))

\* all sequences over S of length <= n
SeqsUpTo(S, n) == UNION {[1..k -> S] : k \in 0..n}

\* s repeated n times (Python s * n)
Repeat(s, n) == [i \in 1..(n * Len(s)) |-> s[((i - 1) % Len(s)) + 1]]

\* Python's str comparison a < b: lexicographic by code point
StrLess(a, b) ==
    \E k \in 1..(Min(Len(a), Len(b)) + 1) :
        /\ \A j \in 1..(k - 1) : a[j] = b[j]
        /\ IF k <= Min(Len(a), Len(b)) THEN a[k] < b[k]
           ELSE Len(a) < Len(b)

-----------------------------------------------------------------------------
(* Characters.                                                              *)

SP == 32
NBSP == 160
EN_DASH == 8211
EM_DASH == 8212
BULLET == 8226
HYPHEN == 45

IsAsciiLetter(c) == c \in 65..90 \/ c \in 97..122
IsAsciiDigit(c) == c \in 48..57

\* the non-ASCII letters the model's inputs use (e-acute, a/i/u-macron, S-acute)
UnicodeLetters == {233, 257, 299, 346, 363}

\* str.isalnum() of one character
isalnum(c) == IsAsciiLetter(c) \/ IsAsciiDigit(c) \/ c \in UnicodeLetters

\* str.isspace() of one character, which is also what the regex \s matches
Whitespace == {9, 10, 11, 12, 13, 28, 29, 30, 31, 32, 133, 160}
isspace(c) == c \in Whitespace

\* _ALLOWED_PUNCT = set(" .,:;-/()")
ALLOWED_PUNCT == {32, 46, 44, 58, 59, 45, 47, 40, 41}

-----------------------------------------------------------------------------
(* TEXT SANITIZATION                                                        *)

\* s.replace(old, new) for single characters
replace(s, old, new) == [i \in 1..Len(s) |-> IF s[i] = old THEN new ELSE s[i]]

IsAscii(c) == c < 128

\* s.encode("ascii", errors="ignore").decode("ascii")
encode_ascii_ignore(s) == SelectSeq(s, IsAscii)

\* the loop of to_ascii_basic: keep alnum, whitespace and allowed punctuation
keep_or_space(s) ==
    [i \in 1..Len(s) |->
        IF isalnum(s[i]) \/ isspace(s[i]) \/ s[i] \in ALLOWED_PUNCT
        THEN s[i] ELSE SP]

\* to_ascii_basic without the encode step: non-ASCII letters pass isalnum()
to_ascii_basic_NoEncode(s) ==
    IF s = <<>> THEN <<>>
    ELSE LET s1 == replace(s, NBSP, SP)
             s2 == replace(replace(replace(s1, EN_DASH, HYPHEN),
                                   EM_DASH, HYPHEN), BULLET, SP)
         IN keep_or_space(s2)

to_ascii_basic(s) ==
    IF s = <<>> THEN <<>>
    ELSE LET s1 == replace(s, NBSP, SP)
             s2 == replace(replace(replace(s1, EN_DASH, HYPHEN),
                                   EM_DASH, HYPHEN), BULLET, SP)
             s3 == encode_ascii_ignore(s2)
         IN keep_or_space(s3)

\* re.sub(r"\s+", " ", s): every maximal run of whitespace becomes one space
collapse_ws(s) ==
    LET idx == [i \in 1..Len(s) |-> i]
        Keep(i) == ~(isspace(s[i]) /\ i > 1 /\ isspace(s[i - 1]))
        kept == SelectSeq(idx, Keep)
    IN [k \in 1..Len(kept) |-> IF isspace(s[kept[k]]) THEN SP ELSE s[kept[k]]]

\* the length of s[:n] without its trailing characters that are in chars
RECURSIVE rstrip_end(_, _, _)
rstrip_end(s, n, chars) ==
    IF n = 0 \/ s[n] \notin chars THEN n ELSE rstrip_end(s, n - 1, chars)

\* s.rstrip(chars): drop the trailing characters that are in chars
rstrip(s, chars) == SubSeq(s, 1, rstrip_end(s, Len(s), chars))

\* the first position of s from n on whose character is not in chars
RECURSIVE lstrip_start(_, _, _)
lstrip_start(s, n, chars) ==
    IF n > Len(s) \/ s[n] \notin chars THEN n ELSE lstrip_start(s, n + 1, chars)

\* s.lstrip(chars)
lstrip(s, chars) == SubSeq(s, lstrip_start(s, 1, chars), Len(s))

\* s.strip()
strip(s) == lstrip(rstrip(s, Whitespace), Whitespace)

sanitize_for_whatsapp_param(s) ==
    LET s1 == to_ascii_basic(s)
        s2 == replace(replace(replace(s1, 13, SP), 10, SP), 9, SP)
    IN strip(collapse_ws(s2))

-----------------------------------------------------------------------------
(* Dates: date.strftime and timedelta.                                      *)

\* days of 2026 before the first day of each month
CumDays == <<0, 31, 59, 90, 120, 151, 181, 212, 243, 273, 304, 334>>

MonthAbbr == << <<74, 97, 110>>, <<70, 101, 98>>, <<77, 97, 114>>,
                <<65, 112, 114>>, <<77, 97, 121>>, <<74, 117, 110>>,
                <<74, 117, 108>>, <<65, 117, 103>>, <<83, 101, 112>>,
                <<79, 99, 116>>, <<78, 111, 118>>, <<68, 101, 99>> >>

MonthOf(d) == CHOOSE m \in 1..12 : CumDays[m] < d /\ (m = 12 \/ d <= CumDays[m + 1])
DayOf(d) == d - CumDays[MonthOf(d)]

\* a number as two decimal digits
Pad2(n) == <<48 + (n \div 10), 48 + (n % 10)>>

\* d.strftime("%b %d"), e.g. "Feb 18"
strftime_b_d(d) == MonthAbbr[MonthOf(d)] \o <<SP>> \o Pad2(DayOf(d))

\* d.strftime("%b %d %Y"), e.g. "Feb 18 2026"
strftime_b_d_Y(d) == strftime_b_d(d) \o <<SP, 50, 48, 50, 54>>

-----------------------------------------------------------------------------
(* AIRTABLE INTEGRATION                                                     *)

\* what the regex \d matches: ASCII digits and other Unicode decimal digits
\* (here the Arabic-Indic ones)
IsDecimalDigit(c) == IsAsciiDigit(c) \/ c \in 1632..1641

\* normalize_phone: None and "" are both rendered as the empty sequence
\* (each is falsy, and the caller only tests `if phone`)
normalize_phone(phone) ==
    IF phone = <<>> THEN <<>>
    ELSE SelectSeq(phone, IsDecimalDigit)

\* the `for rec in records` loop without `seen`: every phone is appended
add_records_NoSeen(records, acc) ==
    LET phones == [i \in 1..Len(records) |-> normalize_phone(records[i])]
        IsPhone(p) == p # <<>>
    IN [recipients |-> acc.recipients \o SelectSeq(phones, IsPhone),
        seen |-> acc.seen]

\* the `for rec in records` loop over one page; acc = [recipients, seen]
RECURSIVE add_records(_, _)
add_records(records, acc) ==
    IF records = <<>> THEN acc
    ELSE LET phone == normalize_phone(Head(records))
         IN IF phone # <<>> /\ phone \notin acc.seen
            THEN add_records(Tail(records),
                             [recipients |-> Append(acc.recipients, phone),
                              seen |-> acc.seen \cup {phone}])
            ELSE add_records(Tail(records), acc)

\* the `while True` loop: responses[i] is the i-th page the server returns,
\* [status, records, offset]; offset tells whether a further page exists
RECURSIVE fetch_pages(_, _, _)
fetch_pages(responses, i, acc) ==
    IF responses[i].status >= 300
    THEN [raised |-> TRUE, recipients |-> <<>>]
    ELSE LET acc2 == add_records(responses[i].records, acc)
         IN IF ~responses[i].offset
            THEN [raised |-> FALSE, recipients |-> acc2.recipients]
            ELSE fetch_pages(responses, i + 1, acc2)

fetch_recipients_from_airtable(responses) ==
    fetch_pages(responses, 1, [recipients |-> <<>>, seen |-> {}])

-----------------------------------------------------------------------------
(* SCRAPE EVENTS                                                            *)

\* An article of the fetched list:
\*   time_el       whether it has a <time> element of the expected class
\*   datetime      "missing" | "malformed" | "iso": its datetime attribute
\*   date          the date the attribute holds (when "iso")
\*   display_time  the <time> element's text, whitespace-normalised
\*   title_el      whether it has a title link
\*   title         the title link's text

\* the `for article in articles` loop
RECURSIVE scan_articles(_, _, _, _)
scan_articles(articles, start_date, end_date, final_events) ==
    IF articles = <<>> THEN [raised |-> FALSE, events |-> final_events]
    ELSE LET article == Head(articles)
         IN IF ~article.time_el \/ article.datetime = "missing"
            THEN scan_articles(Tail(articles), start_date, end_date, final_events)
            ELSE IF article.datetime = "malformed"
            THEN [raised |-> TRUE, events |-> <<>>]  \* fromisoformat raises
            ELSE IF start_date <= article.date /\ article.date <= end_date
            THEN scan_articles(Tail(articles), start_date, end_date,
                    Append(final_events,
                           [date |-> article.date,
                            display_time |-> article.display_time,
                            title |-> IF article.title_el THEN article.title
                                      ELSE <<85, 110, 107, 110, 111, 119, 110, 32,
                                             69, 118, 101, 110, 116>>]))
            ELSE IF article.date > end_date
            THEN [raised |-> FALSE, events |-> final_events]  \* break
            ELSE scan_articles(Tail(articles), start_date, end_date, final_events)

\* get_7_day_events: now is datetime.now(TZ).date(); response is the calendar's
\* answer [error, status, articles], error meaning requests.get itself raised.
\* raise_for_status raises on a 4xx or 5xx status.
get_7_day_events(now, response) ==
    LET start_date == now + 1
        end_date == start_date + 6
    IN IF response.error \/ response.status \in 400..599
       THEN [raised |-> TRUE, events |-> <<>>, start_date |-> start_date]
       ELSE LET r == scan_articles(response.articles, start_date, end_date, <<>>)
            IN [raised |-> r.raised, events |-> r.events, start_date |-> start_date]

-----------------------------------------------------------------------------
(* FORMAT MESSAGE                                                           *)

MAX_PARAM_LEN == 900

\* the sort key (e["date"], e.get("display_time") or ""), compared as tuples
KeyLess(a, b) ==
    \/ a.date < b.date
    \/ a.date = b.date /\ StrLess(a.display_time, b.display_time)

\* sorted(events, key=...): a stable sort, each event placed after every
\* event already placed whose key is not greater
RECURSIVE sorted(_)
sorted(evs) ==
    IF evs = <<>> THEN <<>>
    ELSE LET e == evs[Len(evs)]
             done == sorted(SubSeq(evs, 1, Len(evs) - 1))
             n == Cardinality({i \in 1..Len(done) : ~KeyLess(e, done[i])})
         IN SubSeq(done, 1, n) \o <<e>> \o SubSeq(done, n + 1, Len(done))

\* " ".join(parts)
RECURSIVE join(_)
join(parts) ==
    IF parts = <<>> THEN <<>>
    ELSE IF Len(parts) = 1 THEN parts[1]
    ELSE parts[1] \o <<SP>> \o join(Tail(parts))

\* header: "Next 7 days {start} to {end}."
header(start_date, end_date) ==
    <<78, 101, 120, 116, 32, 55, 32, 100, 97, 121, 115, 32>>
    \o strftime_b_d_Y(start_date) \o <<32, 116, 111, 32>>
    \o strftime_b_d_Y(end_date) \o <<46>>

\* f"{d} {t} {title}."
event_part(ev) ==
    strftime_b_d(ev.date) \o <<SP>> \o ev.display_time \o <<SP>> \o ev.title \o <<46>>

\* the message before the length check: header and events joined, sanitized
rendering(now, evs) ==
    LET start_date == now + 1
        end_date == start_date + 6
        events_sorted == sorted(evs)
        parts == <<header(start_date, end_date)>>
                 \o [i \in 1..Len(events_sorted) |-> event_part(events_sorted[i])]
    IN sanitize_for_whatsapp_param(join(parts))

\* the characters of rstrip(" .,:;-/()")
RSTRIP_CHARS == {32, 46, 44, 58, 59, 45, 47, 40, 41}

\* the suffix " more."
MORE == <<32, 109, 111, 114, 101, 46>>

\* the length check cutting at MAX_PARAM_LEN - 5 instead of - 6
truncate_OffByOne(msg) ==
    IF Len(msg) > MAX_PARAM_LEN
    THEN sanitize_for_whatsapp_param(
             rstrip(Take(msg, MAX_PARAM_LEN - 5), RSTRIP_CHARS) \o MORE)
    ELSE msg

\* if len(msg) > MAX_PARAM_LEN: cut, strip, add the suffix, sanitize again
truncate(msg) ==
    IF Len(msg) > MAX_PARAM_LEN
    THEN sanitize_for_whatsapp_param(
             rstrip(Take(msg, MAX_PARAM_LEN - 6), RSTRIP_CHARS) \o MORE)
    ELSE msg

format_events_message(now, evs) == truncate(rendering(now, evs))

-----------------------------------------------------------------------------
(* WHATSAPP SEND                                                            *)

\* The answer to one requests.post: error means the call itself raised (a
\* timeout, a connection error); body is the response's content:
\* "empty" | "object" | "array" | "invalid" (not JSON).
\* send_whatsapp_template raises on a transport error, when r.json() fails
\* and on a status >= 300.
send_whatsapp_template(outcome) ==
    [raised |-> outcome.error \/ outcome.body = "invalid" \/ outcome.status >= 300,
     data |-> outcome.body]

\* the body of the try block in main(): the send, then res.get("messages"),
\* which raises AttributeError when the JSON answer is not an object
try_send(outcome) ==
    LET res == send_whatsapp_template(outcome)
    IN res.raised \/ res.data = "array"

-----------------------------------------------------------------------------
(* Inputs of the model.                                                     *)

\* most records the Airtable table holds
MaxRecords == 4
\* most articles of the fetched list given to get_7_day_events on its own
MaxArticles == 3
\* most articles of the fetched list in a run of main()
MaxMainArticles == 2
\* most events given to format_events_message on its own
MaxEvents == 3

\* characters given to the sanitizer: a 7 space . \n \t \r \x1c ! NBSP
\* en-dash bullet e-acute NUL
SanitizeAlphabet == {97, 55, 32, 46, 10, 9, 13, 28, 33, 160, 8211, 8226, 233, 0}

\* raw phone fields: missing, "+", "+1 2", "12", "2"
RawPhones == {<<>>, <<43>>, <<43, 49, 32, 50>>, <<49, 50>>, <<50>>}

\* the k-th page of raws cut after the positions in cuts
PageOf(raws, cuts, k) ==
    LET ends == cuts \cup {Len(raws)}
        EndOf(j) == CHOOSE x \in ends : Cardinality({y \in ends : y < x}) = j - 1
    IN SubSeq(raws, IF k = 1 THEN 1 ELSE EndOf(k - 1) + 1, EndOf(k))

\* the pages the server returns for a table, the failAt-th one (if any) with
\* an error status; every page but the last carries an offset
Responses(raws, cuts, failAt) ==
    [k \in 1..(Cardinality(cuts) + 1) |->
        [status |-> IF k = failAt THEN 404 ELSE 200,
         records |-> PageOf(raws, cuts, k),
         offset |-> k < Cardinality(cuts) + 1]]

AirtableInputs ==
    {Responses(t[1], t[2], t[3]) :
        t \in {x \in (SeqsUpTo(RawPhones, MaxRecords))
                      \X (SUBSET (1..(MaxRecords - 1)))
                      \X (0..MaxRecords) :
                    /\ x[2] \subseteq 1..(Len(x[1]) - 1)
                    /\ x[3] <= Cardinality(x[2]) + 1}}

T_Aarti == <<65, 97, 114, 116, 105>>
T_Puja == <<80, 117, 106, 97, 32, 40, 72, 97, 108, 108, 41>>
T_7pm == <<55, 58, 48, 48, 32, 112, 109>>
T_10am == <<49, 48, 58, 48, 48, 32, 97, 109>>

Article(time_el, datetime, date, display_time, title_el, title) ==
    [time_el |-> time_el, datetime |-> datetime, date |-> date,
     display_time |-> display_time, title_el |-> title_el, title |-> title]

\* articles of the list view, dated around the window that starts on FirstDay + 1
ArticlePool ==
    { Article(FALSE, "missing", 0, <<>>, TRUE, T_Aarti),
      Article(TRUE, "missing", 0, T_7pm, TRUE, T_Aarti),
      Article(TRUE, "malformed", 0, T_7pm, TRUE, T_Aarti),
      Article(TRUE, "iso", FirstDay, T_7pm, TRUE, T_Aarti),
      Article(TRUE, "iso", FirstDay + 1, T_7pm, TRUE, T_Aarti),
      Article(TRUE, "iso", FirstDay + 1, T_7pm, TRUE, T_Puja),
      Article(TRUE, "iso", FirstDay + 7, T_10am, FALSE, <<>>),
      Article(TRUE, "iso", FirstDay + 8, <<>>, TRUE, T_Puja) }

CalendarResponses(maxArticles) ==
    [error : {FALSE}, status : {200}, articles : SeqsUpTo(ArticlePool, maxArticles)]
    \cup [error : {TRUE}, status : {0}, articles : {<<>>}]
    \cup [error : {FALSE}, status : {404, 503}, articles : {<<>>}]

Event(date, display_time, title) ==
    [date |-> date, display_time |-> display_time, title |-> title]

\* events with short and long titles, two of them equal in date and time
EventPool ==
    { Event(FirstDay + 1, T_7pm, T_Aarti),
      Event(FirstDay + 1, T_7pm, T_Puja),
      Event(FirstDay + 3, <<>>, Repeat(<<97, 98, 46, 32>>, 110)),
      Event(FirstDay + 2, T_10am, Repeat(<<79, 109, 32, 45, 32>>, 90)),
      Event(FirstDay + 7, <<65, 108, 108, 32, 100, 97, 121>>,
            <<346, 114, 299, 32, 80, 363, 106, 257, 32, 8212, 32, 127881, 32, 8226>>),
      Event(FirstDay + 4, <<54, 32, 112, 109>>, Repeat(<<120>>, 300)) }

SendOutcomes ==
    [error : BOOLEAN, status : {200, 299, 300, 500},
     body : {"empty", "object", "array", "invalid"}]

-----------------------------------------------------------------------------
(* MAIN                                                                     *)

callVars == <<arg, ret>>
clockVars == <<today, ticks>>
loopVars == <<sent, failed, attempts, sleeps>>

InitMain ==
    /\ pc = "start"
    /\ today = FirstDay
    /\ ticks = 0
    /\ recipients = <<>>
    /\ events = <<>>
    /\ win_start = 0
    /\ fmt_start = 0
    /\ format_calls = 0
    /\ events_text = <<>>
    /\ sent = 0
    /\ failed = 0
    /\ attempts = <<>>
    /\ sleeps = 0
    /\ raised = "none"
    /\ arg = <<>>
    /\ ret = <<>>

\* whatsapp_token = os.environ["WHATSAPP_TOKEN"]: KeyError when it is not set
ReadToken ==
    /\ pc = "start"
    /\ \E present \in BOOLEAN :
          IF present
          THEN pc' = "fetch_recipients" /\ raised' = raised
          ELSE pc' = "aborted" /\ raised' = "os.environ"
    /\ UNCHANGED <<recipients, events, win_start, fmt_start, format_calls,
                   events_text>>
    /\ UNCHANGED <<clockVars, loopVars, callVars>>

\* 1) recipients = fetch_recipients_from_airtable(); if not recipients: return
FetchRecipients ==
    /\ pc = "fetch_recipients"
    /\ \E responses \in AirtableInputs :
          LET r == fetch_recipients_from_airtable(responses)
          IN IF r.raised
             THEN /\ pc' = "aborted"
                  /\ raised' = "fetch_recipients_from_airtable"
                  /\ recipients' = recipients
             ELSE /\ recipients' = r.recipients
                  /\ raised' = raised
                  /\ pc' = IF r.recipients = <<>> THEN "no_recipients"
                           ELSE "get_events"
    /\ UNCHANGED <<events, win_start, fmt_start, format_calls, events_text>>
    /\ UNCHANGED <<clockVars, loopVars, callVars>>

\* step 2 without the `if not events: return`
GetEvents_NoEmptyCheck ==
    /\ pc = "get_events"
    /\ \E response \in CalendarResponses(MaxMainArticles) :
          LET r == get_7_day_events(today, response)
          IN /\ win_start' = r.start_date
             /\ IF r.raised
                THEN /\ pc' = "aborted"
                     /\ raised' = "get_7_day_events"
                     /\ events' = events
                ELSE /\ events' = r.events
                     /\ raised' = raised
                     /\ pc' = "format"
    /\ UNCHANGED <<recipients, fmt_start, format_calls, events_text>>
    /\ UNCHANGED <<clockVars, loopVars, callVars>>

\* 2) events = get_7_day_events(); if not events: return
\* No try/except surrounds the call: an exception of the fetch or of the
\* parsing leaves main().
GetEvents ==
    /\ pc = "get_events"
    /\ \E response \in CalendarResponses(MaxMainArticles) :
          LET r == get_7_day_events(today, response)
          IN /\ win_start' = r.start_date
             /\ IF r.raised
                THEN /\ pc' = "aborted"
                     /\ raised' = "get_7_day_events"
                     /\ events' = events
                ELSE /\ events' = r.events
                     /\ raised' = raised
                     /\ pc' = IF r.events = <<>> THEN "no_events" ELSE "format"
    /\ UNCHANGED <<recipients, fmt_start, format_calls, events_text>>
    /\ UNCHANGED <<clockVars, loopVars, callVars>>

\* 3) events_text = format_events_message(events)
FormatMessage ==
    /\ pc = "format"
    /\ events_text' = format_events_message(today, events)
    /\ fmt_start' = today + 1
    /\ format_calls' = format_calls + 1
    /\ pc' = "send"
    /\ UNCHANGED <<recipients, events, win_start, raised>>
    /\ UNCHANGED <<clockVars, loopVars, callVars>>

\* the loop body with no try/except: an exception of the send leaves main()
Send_NoExcept ==
    /\ pc = "send"
    /\ \E outcome \in SendOutcomes :
          LET n == recipients[Len(attempts) + 1]
              exc == try_send(outcome)
          IN /\ attempts' = Append(attempts, [to |-> n, raised |-> exc])
             /\ sent' = IF exc THEN sent ELSE sent + 1
             /\ failed' = failed
             /\ pc' = IF exc THEN "aborted" ELSE "sleep"
             /\ raised' = IF exc THEN "send_whatsapp_template" ELSE raised
    /\ UNCHANGED <<recipients, events, win_start, fmt_start, format_calls,
                   events_text, sleeps>>
    /\ UNCHANGED <<clockVars, callVars>>

\* the loop body with time.sleep inside the try block: no delay after a failure
Send_SleepInTry ==
    /\ pc = "send"
    /\ \E outcome \in SendOutcomes :
          LET n == recipients[Len(attempts) + 1]
              exc == try_send(outcome)
          IN /\ attempts' = Append(attempts, [to |-> n, raised |-> exc])
             /\ sent' = IF exc THEN sent ELSE sent + 1
             /\ failed' = IF exc THEN failed + 1 ELSE failed
             /\ pc' = IF ~exc THEN "sleep"
                      ELSE IF Len(attempts) + 1 < Len(recipients) THEN "send"
                      ELSE "done"
    /\ UNCHANGED <<recipients, events, win_start, fmt_start, format_calls,
                   events_text, sleeps, raised>>
    /\ UNCHANGED <<clockVars, callVars>>

\* 4) for n in recipients: try: send ... sent += 1; except: failed += 1
Send ==
    /\ pc = "send"
    /\ \E outcome \in SendOutcomes :
          LET n == recipients[Len(attempts) + 1]
              exc == try_send(outcome)
          IN /\ attempts' = Append(attempts, [to |-> n, raised |-> exc])
             /\ sent' = IF exc THEN sent ELSE sent + 1
             /\ failed' = IF exc THEN failed + 1 ELSE failed
    /\ pc' = "sleep"
    /\ UNCHANGED <<recipients, events, win_start, fmt_start, format_calls,
                   events_text, sleeps, raised>>
    /\ UNCHANGED <<clockVars, callVars>>

\* time.sleep(DELAY_BETWEEN_SENDS_SEC), then the next recipient or the end
Sleep ==
    /\ pc = "sleep"
    /\ sleeps' = sleeps + 1
    /\ pc' = IF Len(attempts) < Len(recipients) THEN "send" ELSE "done"
    /\ UNCHANGED <<recipients, events, win_start, fmt_start, format_calls,
                   events_text, sent, failed, attempts, raised>>
    /\ UNCHANGED <<clockVars, callVars>>

Terminal == {"done", "no_events", "no_recipients", "aborted"}

\* midnight passes in America/Los_Angeles while the run is under way
Tick ==
    /\ pc \notin Terminal
    /\ ticks < MaxTicks
    /\ today' = today + 1
    /\ ticks' = ticks + 1
    /\ UNCHANGED <<pc, recipients, events, win_start, fmt_start, format_calls,
                   events_text, raised>>
    /\ UNCHANGED <<loopVars, callVars>>

Next ==
    \/ ReadToken
    \/ FetchRecipients
    \/ GetEvents
    \/ FormatMessage
    \/ Send
    \/ Sleep
    \/ Tick

Spec == InitMain /\ [][Next]_vars

-----------------------------------------------------------------------------
(* The functions on their own: the argument is drawn at the start, one      *)
(* action calls the function.                                               *)

InitCall(inputs) ==
    /\ pc = "call"
    /\ arg \in inputs
    /\ ret = <<>>
    /\ today = FirstDay
    /\ ticks = 0
    /\ recipients = <<>>
    /\ events = <<>>
    /\ win_start = 0
    /\ fmt_start = 0
    /\ format_calls = 0
    /\ events_text = <<>>
    /\ sent = 0
    /\ failed = 0
    /\ attempts = <<>>
    /\ sleeps = 0
    /\ raised = "none"

mainVars == <<today, ticks, recipients, events, win_start, fmt_start,
              format_calls, events_text, sent, failed, attempts, sleeps, raised>>

CallSanitize ==
    /\ pc = "call"
    /\ ret' = sanitize_for_whatsapp_param(arg)
    /\ pc' = "return"
    /\ UNCHANGED <<arg, mainVars>>

SpecSanitize ==
    InitCall(SeqsUpTo(SanitizeAlphabet, MaxLen)) /\ [][CallSanitize]_vars

CallFetchRecipients ==
    /\ pc = "call"
    /\ ret' = fetch_recipients_from_airtable(arg)
    /\ pc' = "return"
    /\ UNCHANGED <<arg, mainVars>>

SpecRecipients == InitCall(AirtableInputs) /\ [][CallFetchRecipients]_vars

CallGetEvents ==
    /\ pc = "call"
    /\ ret' = get_7_day_events(arg.now, arg.response)
    /\ pc' = "return"
    /\ UNCHANGED <<arg, mainVars>>

SpecExtract ==
    /\ InitCall([now : {FirstDay}, response : CalendarResponses(MaxArticles)])
    /\ [][CallGetEvents]_vars

CallFormat ==
    /\ pc = "call"
    /\ ret' = format_events_message(arg.now, arg.events)
    /\ pc' = "return"
    /\ UNCHANGED <<arg, mainVars>>

SpecFormat ==
    /\ InitCall([now : {FirstDay}, events : SeqsUpTo(EventPool, MaxEvents)])
    /\ [][CallFormat]_vars

-----------------------------------------------------------------------------
(* Properties.                                                              *)

InLoop == {"send", "sleep", "done"}

\* C1: once the send loop is entered, a failed send never aborts it and no
\* exception leaves main(): the attempts made so far are the first recipients
\* of the list, one attempt each and in list order, sent + failed is the
\* number of attempts, failed is the number of attempts that raised, and at
\* completion every recipient has had its attempt.
C1_SendLoopIsolatesFailures ==
    /\ attempts # <<>> => pc \in InLoop
    /\ Len(attempts) <= Len(recipients)
    /\ \A i \in 1..Len(attempts) : attempts[i].to = recipients[i]
    /\ sent + failed = Len(attempts)
    /\ failed = Cardinality({i \in 1..Len(attempts) : attempts[i].raised})
    /\ pc = "done" => Len(attempts) = Len(recipients)

\* a completed run of two recipients whose first send failed and second succeeded
C1_Witness ==
    /\ pc = "done"
    /\ Len(recipients) = 2
    /\ attempts[1].raised
    /\ ~attempts[2].raised
    /\ sent = 1
    /\ failed = 1

\* the spec's scenario: one recipient, its send fails, sent=0 and failed=1
C1_OneRecipientFails ==
    /\ pc = "done"
    /\ Len(recipients) = 1
    /\ attempts[1].raised
    /\ sent = 0
    /\ failed = 1

\* C2: when get_7_day_events returns an empty list, main() stops in the
\* "no events" state: format_events_message is never called and no send is
\* attempted, whatever the recipient list.
C2_NoEventsNoSend ==
    (win_start # 0 /\ raised = "none" /\ events = <<>>)
        => (pc = "no_events" /\ format_calls = 0 /\ events_text = <<>>
            /\ attempts = <<>>)

\* the extraction returned nothing for a list of two recipients
C2_Witness ==
    /\ pc = "no_events"
    /\ win_start # 0
    /\ Len(recipients) = 2

\* C3: a failure of the calendar fetch or of the event parsing does not abort
\* the run with an exception: main() is never left by an exception of
\* get_7_day_events.
C3_ExtractionFailureRecovered ==
    ~(pc = "aborted" /\ raised = "get_7_day_events")

\* C9: every send attempt, failed or not, is followed by exactly one delay
\* before the next attempt: when an attempt is about to be made, and at the
\* end, there have been as many delays as attempts; right after an attempt,
\* one fewer.
C9_DelayAfterEverySend ==
    /\ pc = "send" => sleeps = Len(attempts)
    /\ pc = "sleep" => sleeps + 1 = Len(attempts)
    /\ pc = "done" => sleeps = Len(attempts)

\* a failed attempt has been followed by its delay and the next attempt is due
C9_Witness ==
    /\ pc = "send"
    /\ Len(attempts) = 1
    /\ attempts[1].raised
    /\ sleeps = 1

\* C10: the window of the message header is the window the events were
\* selected for, and every event of the message is dated inside it, also
\* when the date changes between the extraction and the formatting.
C10_HeaderWindowIsExtractionWindow ==
    pc \in InLoop =>
        /\ fmt_start = win_start
        /\ Take(events_text, Len(header(win_start, win_start + 6)))
               = header(win_start, win_start + 6)
        /\ \A i \in 1..Len(events) :
              fmt_start <= events[i].date /\ events[i].date <= fmt_start + 6

-----------------------------------------------------------------------------

PunctOfClaim == {46, 44, 58, 59, 45, 47, 40, 41}

RECURSIVE AllRecords(_)
AllRecords(responses) ==
    IF responses = <<>> THEN <<>>
    ELSE Head(responses).records \o AllRecords(Tail(responses))

DigitsOf(raw) == SelectSeq(raw, IsAsciiDigit)

\* C6: the returned list never holds the same digits-only number twice,
\* whatever the pages and the raw spellings; entries without digits are
\* dropped; the numbers appear in the order of their first occurrences.
C6_RecipientsUnique ==
    (pc = "return" /\ ~ret.raised) =>
        LET raw == AllRecords(arg)
            nums == {DigitsOf(raw[i]) : i \in 1..Len(raw)} \ {<<>>}
            First(p) == CHOOSE i \in 1..Len(raw) :
                            /\ DigitsOf(raw[i]) = p
                            /\ \A j \in 1..(i - 1) : DigitsOf(raw[j]) # p
            r == ret.recipients
        IN /\ \A i, j \in 1..Len(r) : i # j => r[i] # r[j]
           /\ Range(r) = nums
           /\ \A i, j \in 1..Len(r) : i < j => First(r[i]) < First(r[j])

\* "+1 2" on the first page and "12" on a later one, and two numbers returned
C6_Witness ==
    /\ pc = "return"
    /\ ~ret.raised
    /\ Len(arg) >= 2
    /\ \E i \in 1..Len(arg[1].records) : arg[1].records[i] = <<43, 49, 32, 50>>
    /\ \E i \in 1..Len(arg[2].records) : arg[2].records[i] = <<49, 50>>
    /\ Len(ret.recipients) = 2

Dated(a) == a.time_el /\ a.datetime = "iso"

\* C7: the extraction returns the dated entries of the list whose date lies in
\* [start, end], all of them and in document order, whatever the order of the
\* list.
C7_ExtractionIsFullFilter ==
    (pc = "return" /\ ~ret.raised) =>
        LET start == arg.now + 1
            InWindow(a) == Dated(a) /\ start <= a.date /\ a.date <= start + 6
            kept == SelectSeq(arg.response.articles, InWindow)
        IN /\ Len(ret.events) = Len(kept)
           /\ \A i \in 1..Len(kept) :
                 /\ ret.events[i].date = kept[i].date
                 /\ ret.events[i].display_time = kept[i].display_time

\* C4: the message of a non-empty event list is at most MAX_PARAM_LEN = 900
\* characters long; when the sanitized rendering is longer than 900 it is the
\* rendering's first 894 characters without their trailing separators and
\* punctuation, followed by " more."; otherwise it is the rendering itself.
C4_MessageBounded ==
    (pc = "return" /\ arg.events # <<>>) =>
        LET natural == rendering(arg.now, arg.events)
            cut == SubSeq(natural, 1, 894)
            StripSet == {32} \cup PunctOfClaim
            n == Len(ret) - 6
        IN /\ Len(ret) <= 900
           /\ Len(natural) <= 900 => ret = natural
           /\ Len(natural) > 900 =>
                 /\ n \in 0..894
                 /\ n > 0 => cut[n] \notin StripSet
                 /\ \A j \in (n + 1)..894 : cut[j] \in StripSet
                 /\ ret = SubSeq(cut, 1, n) \o <<32, 109, 111, 114, 101, 46>>

\* a rendering longer than 900 characters, cut where characters are stripped
C4_Witness ==
    /\ pc = "return"
    /\ arg.events # <<>>
    /\ Len(rendering(arg.now, arg.events)) > 900
    /\ Len(ret) < 900
    /\ SubSeq(ret, Len(ret) - 5, Len(ret)) = <<32, 109, 111, 114, 101, 46>>

\* a rendering longer than 900 characters, cut where nothing is stripped
C4_WitnessFull ==
    /\ pc = "return"
    /\ Len(rendering(arg.now, arg.events)) > 900
    /\ Len(ret) = 900

\* C8: the message does not depend on the order of the events given: every
\* permutation of the list gives the same string.
C8_FormatOrderIndependent ==
    pc = "return" =>
        \A p \in Permutations(1..Len(arg.events)) :
            format_events_message(arg.now,
                [i \in 1..Len(arg.events) |-> arg.events[p[i]]]) = ret

=============================================================================
